---- MODULE Spec2Model ----
(***************************************************************************)
(* Model of the geometric-algebra Multivector engine of src/main.cpp.      *)
(*                                                                         *)
(* A multivector is the vector m_blades: a sequence of blades, each a      *)
(* record [coefficient, mask].  Coefficients are floats in the source; the *)
(* model uses integers, on which float arithmetic is exact for the small   *)
(* magnitudes explored here (|x| < 2^24), and for which -0.0 == 0.0f is    *)
(* the single value 0.  Masks are uint64_t; every mask explored is below   *)
(* 2^Dimension, so no shift or XOR wraps.                                  *)
(*                                                                         *)
(* The state is that of a caller holding the result of the previous        *)
(* operation (res) and applying the next public operation to it; op, lhs,  *)
(* rhs, scalar, index and blades record which operation produced res and   *)
(* from which operands.  sig is the Signature template parameter.          *)
(***************************************************************************)
EXTENDS Integers, Sequences, FiniteSets

VARIABLES sig, nops, op, lhs, rhs, scalar, index, blades, res

vars == <<sig, nops, op, lhs, rhs, scalar, index, blades, res>>

(* ---------------------------- bounds ----------------------------------- *)
\* number of operations in one explored run, the factory call included
MaxOps == 2
\* length of the blade list handed to create
MaxLen == 2
\* magnitude of the coefficients and scalars supplied by the caller
MaxCoeff == 1
\* largest mask supplied to create by the caller
MaxCreateMask == 3

(* ------------------------- program constants --------------------------- *)
\* EuclideanMultivector = Multivector<EuclideanSignature<4>>
Dimension == 4

Signatures == {"Euclidean", "Minkowski"}

(* --------------------------- bit operations ---------------------------- *)
RECURSIVE BitXor(_, _)
BitXor(a, b) ==
    IF a = 0 THEN b
    ELSE IF b = 0 THEN a
    ELSE (((a % 2) + (b % 2)) % 2) + 2 * BitXor(a \div 2, b \div 2)

RECURSIVE BitAnd(_, _)
BitAnd(a, b) ==
    IF a = 0 \/ b = 0 THEN 0
    ELSE ((a % 2) * (b % 2)) + 2 * BitAnd(a \div 2, b \div 2)

RECURSIVE popcount(_)
popcount(a) == IF a = 0 THEN 0 ELSE (a % 2) + popcount(a \div 2)

RECURSIVE ctz(_)
ctz(a) == IF a % 2 = 1 THEN 0 ELSE 1 + ctz(a \div 2)

RECURSIVE Shl1(_)
Shl1(i) == IF i = 0 THEN 1 ELSE 2 * Shl1(i - 1)

(* ----------------------------- signatures ------------------------------ *)
EuclideanValue(i) == 1

MinkowskiTable == <<1, 0, 0, 0>>

MinkowskiValue(i) == MinkowskiTable[i + 1]

max_dimension(s) == IF s = "Euclidean" THEN Dimension ELSE Len(MinkowskiTable)

SignatureValue(s, i) == IF s = "Euclidean" THEN EuclideanValue(i) ELSE MinkowskiValue(i)

(* ------------------------------ add_blade ------------------------------ *)
Blade(c, m) == [coefficient |-> c, mask |-> m]

\* variant: every nonzero blade is appended, the scan for an equal mask is missing
add_blade_no_merge(v, coeff, mask) ==
    IF coeff = 0 THEN v ELSE Append(v, Blade(coeff, mask))

\* variant: a blade whose merged coefficient becomes zero is erased
add_blade_drop_zero(v, coeff, mask) ==
    IF coeff = 0 THEN v
    ELSE IF \E k \in 1..Len(v) : v[k].mask = mask
         THEN LET k == CHOOSE j \in 1..Len(v) : v[j].mask = mask
              IN IF v[k].coefficient + coeff = 0
                 THEN SubSeq(v, 1, k - 1) \o SubSeq(v, k + 1, Len(v))
                 ELSE [v EXCEPT ![k].coefficient = @ + coeff]
         ELSE Append(v, Blade(coeff, mask))

add_blade(v, coeff, mask) ==
    IF coeff = 0 THEN v
    ELSE IF \E k \in 1..Len(v) : v[k].mask = mask
         THEN LET k == CHOOSE j \in 1..Len(v) :
                          /\ v[j].mask = mask
                          /\ \A h \in 1..(j - 1) : v[h].mask # mask
              IN [v EXCEPT ![k].coefficient = @ + coeff]
         ELSE Append(v, Blade(coeff, mask))

(* ------------------------------- create -------------------------------- *)
RECURSIVE create_loop(_, _)
create_loop(v, bs) ==
    IF bs = <<>> THEN v
    ELSE create_loop(add_blade(v, Head(bs).coefficient, Head(bs).mask), Tail(bs))

create(bs) == create_loop(<<>>, bs)

basis_vector(i) == add_blade(<<>>, 1, Shl1(i))

(* ------------------------- operator+ / operator- ----------------------- *)
RECURSIVE add_loop(_, _)
add_loop(result, bs) ==
    IF bs = <<>> THEN result
    ELSE add_loop(add_blade(result, Head(bs).coefficient, Head(bs).mask), Tail(bs))

operator_add(A, B) == add_loop(A, B)

RECURSIVE sub_loop(_, _)
sub_loop(result, bs) ==
    IF bs = <<>> THEN result
    ELSE sub_loop(add_blade(result, -Head(bs).coefficient, Head(bs).mask), Tail(bs))

operator_sub(A, B) == sub_loop(A, B)

(* --------------------------- operator*(float) -------------------------- *)
RECURSIVE scale_loop(_, _, _)
scale_loop(result, bs, s) ==
    IF bs = <<>> THEN result
    ELSE scale_loop(add_blade(result, s * Head(bs).coefficient, Head(bs).mask), Tail(bs), s)

operator_mul_scalar(A, s) == scale_loop(<<>>, A, s)

scalar_mul(s, A) == operator_mul_scalar(A, s)

(* ------------------------- blade_parity and sign ----------------------- *)
RECURSIVE blade_parity_loop(_, _, _)
blade_parity_loop(a, b, parity) ==
    IF b = 0 THEN parity
    ELSE LET lowest_set_bit == ctz(b)
             count_bits_below == popcount(a % Shl1(lowest_set_bit))
         IN blade_parity_loop(a, b - Shl1(lowest_set_bit),
                              (parity + (count_bits_below % 2)) % 2)

\* variant: the bits of a are counted without masking off those above the bit of b
blade_parity_unmasked(a, b) == (popcount(a) * popcount(b)) % 2

\* variant: only the lowest set bit of b is visited (if instead of while)
blade_parity_first_bit(a, b) ==
    IF b = 0 THEN 0 ELSE popcount(a % Shl1(ctz(b))) % 2

blade_parity(a, b) == blade_parity_loop(a, b, 0) % 2

RECURSIVE sign_loop(_, _, _)
sign_loop(s, repeated, parity) ==
    IF repeated = 0 THEN parity
    ELSE LET i == ctz(repeated)
         IN sign_loop(s, repeated - Shl1(i), (parity + SignatureValue(s, i)) % 2)

\* variant: the loop over the repeated indices is missing
sign_no_metric(s, a, b) == 2 * blade_parity(a, b) - 1

\* variant: the sign is computed as in reverse(), 1 - 2 * parity
sign_flipped(s, a, b) == 1 - 2 * sign_loop(s, BitAnd(a, b), blade_parity(a, b))

sign(s, a, b) == 2 * sign_loop(s, BitAnd(a, b), blade_parity(a, b)) - 1

(* ----------------------- operator*(Multivector) ------------------------ *)
RECURSIVE mul_inner(_, _, _, _)
mul_inner(s, result, a, bs) ==
    IF bs = <<>> THEN result
    ELSE LET b == Head(bs)
             new_mask == BitXor(a.mask, b.mask)
             new_coeff == a.coefficient * b.coefficient * sign(s, a.mask, b.mask)
         IN mul_inner(s, add_blade(result, new_coeff, new_mask), a, Tail(bs))

RECURSIVE mul_outer(_, _, _, _)
mul_outer(s, result, xs, bs) ==
    IF xs = <<>> THEN result
    ELSE mul_outer(s, mul_inner(s, result, Head(xs), bs), Tail(xs), bs)

operator_mul(s, A, B) == mul_outer(s, <<>>, A, B)

(* ------------------------------- reverse ------------------------------- *)
reverse_sign(m) ==
    LET grade == popcount(m)
        parity == ((grade * (grade - 1)) \div 2) % 2
    IN 1 - 2 * parity

RECURSIVE reverse_loop(_, _)
reverse_loop(result, bs) ==
    IF bs = <<>> THEN result
    ELSE reverse_loop(add_blade(result, Head(bs).coefficient * reverse_sign(Head(bs).mask),
                                Head(bs).mask), Tail(bs))

reverse(A) == reverse_loop(<<>>, A)

(* --------------------- commutator / anticommutator --------------------- *)
commutator(s, A, B) == operator_sub(operator_mul(s, A, B), operator_mul(s, B, A))

anticommutator(s, A, B) == operator_add(operator_mul(s, A, B), operator_mul(s, B, A))

(* ------------------------------ the caller ----------------------------- *)
Coeffs == (-MaxCoeff)..MaxCoeff

InputBlades == {Blade(c, m) : c \in Coeffs, m \in 0..MaxCreateMask}

\* blade lists handed to create when create itself is under study
BladeLists == UNION {[1..n -> InputBlades] : n \in 0..MaxLen}

\* blade lists that start a chain of operations: the unit scalar, e0, -e0
\* and e0e1, repeated and cancelling masks included
SeedBlades == {Blade(1, 0), Blade(1, 1), Blade(-1, 1), Blade(1, 3)}

SeedLists == UNION {[1..n -> SeedBlades] : n \in 0..MaxLen}

BasisVectors(s) == {basis_vector(i) : i \in 0..(max_dimension(s) - 1)}

\* operand pairs of a binary operation: the previous result against a fresh
\* basis vector, on either side, or against itself
OperandPairs ==
    {<<res, f>> : f \in BasisVectors(sig)} \cup {<<f, res>> : f \in BasisVectors(sig)}
        \cup {<<res, res>>}

\* The constructor is private: a multivector exists only once a factory
\* (create or basis_vector) has run.  Before that the caller holds the blade
\* list it is about to pass to create.
InitWith(lists) ==
    /\ sig \in Signatures
    /\ nops = 0
    /\ op = "none"
    /\ lhs = <<>>
    /\ rhs = <<>>
    /\ scalar = 0
    /\ index = 0
    /\ blades \in lists
    /\ res = <<>>

Init == InitWith(SeedLists)

InitCreate == InitWith(BladeLists)

Step(name, l, r, s, i, bs, result) ==
    /\ nops' = nops + 1
    /\ op' = name
    /\ lhs' = l
    /\ rhs' = r
    /\ scalar' = s
    /\ index' = i
    /\ blades' = bs
    /\ res' = result
    /\ UNCHANGED sig

Create ==
    /\ op = "none"
    /\ nops < MaxOps
    /\ Step("create", <<>>, <<>>, 0, 0, blades, create(blades))

BasisVector ==
    /\ op = "none"
    /\ nops < MaxOps
    /\ \E i \in 0..(max_dimension(sig) - 1) :
           Step("basis_vector", <<>>, <<>>, 0, i, <<>>, basis_vector(i))

Add ==
    /\ op # "none"
    /\ nops < MaxOps
    /\ \E p \in OperandPairs :
           Step("add", p[1], p[2], 0, 0, <<>>, operator_add(p[1], p[2]))

Sub ==
    /\ op # "none"
    /\ nops < MaxOps
    /\ \E p \in OperandPairs :
           Step("sub", p[1], p[2], 0, 0, <<>>, operator_sub(p[1], p[2]))

MulScalar ==
    /\ op # "none"
    /\ nops < MaxOps
    /\ \E s \in Coeffs :
           Step("mul_scalar", res, <<>>, s, 0, <<>>, operator_mul_scalar(res, s))

ScalarMul ==
    /\ op # "none"
    /\ nops < MaxOps
    /\ \E s \in Coeffs :
           Step("scalar_mul", <<>>, res, s, 0, <<>>, scalar_mul(s, res))

Mul ==
    /\ op # "none"
    /\ nops < MaxOps
    /\ \E p \in OperandPairs :
           Step("mul", p[1], p[2], 0, 0, <<>>, operator_mul(sig, p[1], p[2]))

Reverse ==
    /\ op # "none"
    /\ nops < MaxOps
    /\ Step("reverse", res, <<>>, 0, 0, <<>>, reverse(res))

Commutator ==
    /\ op # "none"
    /\ nops < MaxOps
    /\ \E p \in OperandPairs :
           Step("commutator", p[1], p[2], 0, 0, <<>>, commutator(sig, p[1], p[2]))

Anticommutator ==
    /\ op # "none"
    /\ nops < MaxOps
    /\ \E p \in OperandPairs :
           Step("anticommutator", p[1], p[2], 0, 0, <<>>, anticommutator(sig, p[1], p[2]))

Next ==
    \/ Create
    \/ BasisVector
    \/ Add
    \/ Sub
    \/ MulScalar
    \/ ScalarMul
    \/ Mul
    \/ Reverse
    \/ Commutator
    \/ Anticommutator

Spec == Init /\ [][Next]_vars

\* the factories alone, over the full range of blade lists
NextCreate ==
    \/ Create
    \/ BasisVector

SpecCreate == InitCreate /\ [][NextCreate]_vars

(* ------------------------------ helpers -------------------------------- *)
BladeSet(v) == {v[k] : k \in 1..Len(v)}

UniqueMasks(v) == \A i, j \in 1..Len(v) : i # j => v[i].mask # v[j].mask

NonzeroBlades(v) == \A k \in 1..Len(v) : v[k].coefficient # 0

\* set view of a mask: the indices of its set bits
Bits(m) == {i \in 0..(Dimension - 1) : (m \div Shl1(i)) % 2 = 1}

RECURSIVE MaskOf(_)
MaskOf(S) == IF S = {} THEN 0 ELSE LET i == CHOOSE x \in S : TRUE IN Shl1(i) + MaskOf(S \ {i})

\* the accumulated parity of the sign rule, stated over index sets: the
\* pairs (i in a, k in b) with i below k, plus the shared indices whose
\* signature value is 1
RuleParity(s, a, b) ==
    LET inversions == {p \in Bits(a) \X Bits(b) : p[1] < p[2]}
        flipping == {i \in Bits(a) \cap Bits(b) : s = "Euclidean" \/ i = 0}
    IN (Cardinality(inversions) + Cardinality(flipping)) % 2

SymDiffMask(a, b) == MaskOf((Bits(a) \ Bits(b)) \cup (Bits(b) \ Bits(a)))

AllMasks == 0..(Shl1(Dimension) - 1)

Unit == create(<<Blade(1, 0)>>)

SingleBlades == {<<Blade(c, m)>> : c \in Coeffs \ {0}, m \in AllMasks}

TypeOK == nops \in 0..MaxOps

(* ------------------------------- claims -------------------------------- *)

\* C1: every multivector produced by any sequence of the public operations
\* (and every operand such a sequence feeds back) holds no two blades with
\* the same mask.
C1_MaskUniqueness == UniqueMasks(res) /\ UniqueMasks(lhs) /\ UniqueMasks(rhs)

C1_Witness ==
    /\ op = "create"
    /\ Len(blades) = 2
    /\ blades[1].mask = blades[2].mask
    /\ blades[1].coefficient # 0
    /\ blades[2].coefficient # 0
    /\ Len(res) = 1

\* C2: create({(c1,m),(c2,m)}) with nonzero c1, c2 is exactly one blade of
\* mask m and coefficient c1+c2 (kept even when the sum is 0), and a mask
\* whose given coefficients are all exactly zero does not appear in the result.
C2_MergeKeepsCancellation ==
    op = "create" =>
        /\ (/\ Len(blades) = 2
            /\ blades[1].mask = blades[2].mask
            /\ blades[1].coefficient # 0
            /\ blades[2].coefficient # 0)
           => res = <<Blade(blades[1].coefficient + blades[2].coefficient, blades[1].mask)>>
        /\ \A k \in 1..Len(res) :
               \E j \in 1..Len(blades) :
                   blades[j].mask = res[k].mask /\ blades[j].coefficient # 0

C2_Witness ==
    /\ op = "create"
    /\ Len(blades) = 2
    /\ blades[1] = Blade(1, 1)
    /\ blades[2] = Blade(-1, 1)
    /\ res = <<Blade(0, 1)>>

\* C3: Euclidean scenario: e0*e1 = 1*e(3), e1*e0 = -1*e(3),
\* (e0*e1)*e2 = 1*e(7), e0*e0 = 1*e(0).
C3_EuclideanScenario ==
    (sig = "Euclidean" /\ op = "mul") =>
        /\ (lhs = basis_vector(0) /\ rhs = basis_vector(1)) => res = <<Blade(1, 3)>>
        /\ (lhs = basis_vector(1) /\ rhs = basis_vector(0)) => res = <<Blade(-1, 3)>>
        /\ (lhs = operator_mul(sig, basis_vector(0), basis_vector(1)) /\ rhs = basis_vector(2))
           => res = <<Blade(1, 7)>>
        /\ (lhs = basis_vector(0) /\ rhs = basis_vector(0)) => res = <<Blade(1, 0)>>

\* C4: under the Euclidean signature, for i # j, e_i*e_j and e_j*e_i are
\* each a single blade of mask (1<<i)|(1<<j) with opposite coefficients.
C4_Anticommutativity ==
    \A i, j \in 0..(Dimension - 1) :
        (/\ sig = "Euclidean"
         /\ op = "mul"
         /\ i # j
         /\ lhs = basis_vector(i)
         /\ rhs = basis_vector(j))
        => LET flipped == operator_mul(sig, rhs, lhs)
           IN /\ Len(res) = 1
              /\ Len(flipped) = 1
              /\ res[1].mask = Shl1(i) + Shl1(j)
              /\ flipped[1].mask = Shl1(i) + Shl1(j)
              /\ res[1].coefficient # 0
              /\ res[1].coefficient = -flipped[1].coefficient

C4_Witness ==
    /\ sig = "Euclidean"
    /\ op = "mul"
    /\ lhs = basis_vector(2)
    /\ rhs = basis_vector(1)
    /\ res = <<Blade(-1, 6)>>

\* C5: e_i*e_i is the single blade of mask 0 with coefficient +1 where the
\* signature value at i is 1 (all Euclidean indices, index 0 of {1,0,0,0})
\* and -1 where it is 0 (indices 1, 2, 3 of the table).
C5_SelfProduct ==
    \A i \in 0..(Dimension - 1) :
        (op = "mul" /\ lhs = basis_vector(i) /\ rhs = basis_vector(i))
        => res = <<Blade(IF sig = "Euclidean" \/ i = 0 THEN 1 ELSE -1, 0)>>

C5_Witness ==
    /\ sig = "Minkowski"
    /\ op = "mul"
    /\ lhs = basis_vector(3)
    /\ rhs = basis_vector(3)
    /\ res = <<Blade(-1, 0)>>

\* C6: reversing twice gives back the same set of blades, for every
\* obtainable multivector, including those holding blades cancelled to 0;
\* one reverse keeps grade-0 and grade-1 blades, negates a grade-2 blade,
\* and keeps every mask.
C6_ReverseInvolution ==
    op = "reverse" =>
        /\ BladeSet(reverse(res)) = BladeSet(lhs)
        /\ (Len(lhs) = 1 /\ popcount(lhs[1].mask) \in {0, 1}) => res = lhs
        /\ (Len(lhs) = 1 /\ popcount(lhs[1].mask) = 2)
           => res = <<Blade(-lhs[1].coefficient, lhs[1].mask)>>

\* C7: commutator(A,B) and -1 * commutator(B,A) have the same masks with
\* the same coefficient on each mask.
C7_CommutatorAntisymmetry ==
    op = "commutator" =>
        BladeSet(res) = BladeSet(operator_mul_scalar(commutator(sig, rhs, lhs), -1))

C9_ScalarUnitIdentity ==
    op = "mul" =>
        /\ (rhs = Unit /\ NonzeroBlades(lhs)) => BladeSet(res) = BladeSet(lhs)
        /\ (lhs = Unit /\ NonzeroBlades(rhs)) => BladeSet(res) = BladeSet(rhs)

\* C10: the geometric product is associative on single blades with nonzero
\* coefficients, under both signatures: (A*B)*C = A*(B*C), one blade whose
\* mask is the XOR of the three masks.  The product lhs*rhs just computed
\* is combined with every single blade X placed last, in the middle and first.
C10_BladeAssociativity ==
    (op = "mul" /\ Len(lhs) = 1 /\ Len(rhs) = 1 /\ NonzeroBlades(lhs) /\ NonzeroBlades(rhs))
    => \A X \in SingleBlades :
           LET xor3 == SymDiffMask(SymDiffMask(lhs[1].mask, rhs[1].mask), X[1].mask)
               last == operator_mul(sig, res, X)
               mid == operator_mul(sig, operator_mul(sig, lhs, X), rhs)
               first == operator_mul(sig, operator_mul(sig, X, lhs), rhs)
           IN /\ last = operator_mul(sig, lhs, operator_mul(sig, rhs, X))
              /\ mid = operator_mul(sig, lhs, operator_mul(sig, X, rhs))
              /\ first = operator_mul(sig, X, res)
              /\ Len(last) = 1 /\ Len(mid) = 1 /\ Len(first) = 1
              /\ last[1].mask = xor3 /\ mid[1].mask = xor3 /\ first[1].mask = xor3

C10_Witness ==
    /\ sig = "Minkowski"
    /\ op = "mul"
    /\ Len(lhs) = 1
    /\ lhs[1].coefficient # 0
    /\ popcount(lhs[1].mask) = 2
    /\ rhs = basis_vector(1)
    /\ Len(res) = 1
====
